---- MODULE Spec2Model ----
(***************************************************************************)
(* Model of the COSMOS-UK notebook's daily-resampling and sensor-comparison *)
(* pipeline: the callback site_daily (read the daily and the sub-hourly     *)
(* table of the selected station, average the sub-hourly _VWC channels per  *)
(* calendar date, left-join them to the daily table, keep the VWC columns,  *)
(* drop the all-missing columns, melt to long form, plot), the callback     *)
(* plot_pe_vwc that hangs on the same Select widget, and the widget.        *)
(*                                                                         *)
(* A timestamp is [day, tod]: a calendar day and a time-of-day slot; slot 0 *)
(* is midnight.  A measurement is a rational [num, den] in lowest terms;    *)
(* NaN is [num |-> 0, den |-> 0].  A column name is the sequence of its     *)
(* '_'-separated parts, so that "TDT1_VWC" is <<"TDT1", "VWC">>.            *)
(* A DataFrame is [index, columns, data]: the index keys, the column names  *)
(* in order, and one function from column name to cell per row.            *)
(*                                                                         *)
(* Spec is a session: the Select widget switches between the stations, over *)
(* small files.  SpecTables is the first run of site_daily over the tables  *)
(* of one station, drawn from the bounds.  SpecColumns is a session over    *)
(* files that lack a column the callbacks name.                             *)
(***************************************************************************)
EXTENDS Integers, Sequences, FiniteSets, TLC

\* ---------------------------------------------------------------- bounds
\* calendar days 1..MaxDay
MaxDay == 3
\* time-of-day slots 0..MaxTod of a sub-hourly timestamp
MaxTod == 1
\* readings Reading(0)..Reading(MaxVal) in a CSV cell
MaxVal == 1
\* rows of a sub-hourly CSV file
MaxSub == 2
\* changes of the Select widget's value in one session
MaxSelections == 3

\* ------------------------------------------------------------- constants
\* catalog.yaml, csv_kwargs: na_values: [-9999]
NA == -9999

NaN == [num |-> 0, den |-> 0]

DATE_TIME == <<"DATE", "TIME">>
SITE_ID == <<"SITE", "ID">>
COSMOS_VWC == <<"COSMOS", "VWC">>
PE == <<"PE">>
TA == <<"TA">>
TDT1_TSOIL == <<"TDT1", "TSOIL">>
TDT1_VWC == <<"TDT1", "VWC">>

\* metadata.SITE_ID.tolist(): the options of the Select widget, in order
station_list == <<"CHIMN", "SHEEP">>

Stations == {station_list[i] : i \in 1..Len(station_list)}

Days == 1..MaxDay

Tods == 0..MaxTod

Reading(i) == 20 + 4 * i

Readings == {Reading(i) : i \in 0..MaxVal}

\* -------------------------------------------------------------- helpers
Range(s) == {s[i] : i \in 1..Len(s)}

Min(S) == CHOOSE m \in S : \A n \in S : m <= n

RECURSIVE SortedSeq(_)
\* the elements of a finite set of integers in ascending order
SortedSeq(S) == IF S = {} THEN <<>> ELSE <<Min(S)>> \o SortedSeq(S \ {Min(S)})

Abs(n) == IF n < 0 THEN -n ELSE n

RECURSIVE GCD(_, _)
GCD(a, b) == IF b = 0 THEN a ELSE GCD(b, a % b)

\* the rational n/d (d > 0) in lowest terms
Rat(n, d) == LET g == GCD(Abs(n), d) IN [num |-> n \div g, den |-> d \div g]

RatAdd(a, b) == Rat(a.num * b.den + b.num * a.den, a.den * b.den)

RECURSIVE RatSum(_)
RatSum(s) == IF s = <<>> THEN Rat(0, 1) ELSE RatAdd(Head(s), RatSum(Tail(s)))

\* position of a timestamp on the time line
Instant(ts) == ts.day * (MaxTod + 1) + ts.tod

\* the timestamp at position k of the time line
StampAt(k) == [day |-> k \div (MaxTod + 1), tod |-> k % (MaxTod + 1)]

Timestamps == [day : Days, tod : Tods]

\* Series.dt.date: the calendar date of a timestamp, time-of-day discarded
ToDate(ts) == ts.day

\* a conversion that lands on the evening before (a time-zone shift)
DateToTimestampShifted(d) == [day |-> d - 1, tod |-> MaxTod]

\* Index.astype('datetime64[ns]') of a date: midnight of that date
DateToTimestamp(d) == [day |-> d, tod |-> 0]

\* a test of the probe prefix in place of the suffix (str.startswith('TDT1'))
StartsWithTDT1(name) == name[1] = "TDT1"

\* str.endswith('_VWC') on a column name
EndsWithVWC(name) == Len(name) >= 2 /\ name[Len(name)] = "VWC"

\* ------------------------------------------------------------ DataFrames
NoFrame == [index |-> <<>>, columns |-> <<>>, data |-> <<>>]

NRows(df) == Len(df.data)

HasColumn(df, c) == c \in Range(df.columns)

\* pandas.isna of a cell
IsNa(v) == v = NaN

\* csv_kwargs na_values / parse_dates: a CSV cell as pandas reads it
ParseCell(c, raw) ==
  IF c = DATE_TIME \/ c = SITE_ID THEN raw
  ELSE IF raw = NA THEN NaN ELSE Rat(raw, 1)

\* cat.data_siteid(...).read(): a fresh DataFrame with a RangeIndex
ReadCsv(file) ==
  [index   |-> [i \in 1..Len(file.rows) |-> i - 1],
   columns |-> file.columns,
   data    |-> [i \in 1..Len(file.rows) |->
                  [c \in Range(file.columns) |-> ParseCell(c, file.rows[i][c])]]]

\* df.index = df.DATE_TIME.astype('datetime64[ns]')
SetDateTimeIndex(df) ==
  [df EXCEPT !.index = [i \in 1..NRows(df) |-> df.data[i][DATE_TIME]]]

\* df.columns[df.columns.str.endswith('_VWC')]
VwcColumns(df) == SelectSeq(df.columns, EndsWithVWC)

\* a mean computed as sum() / count with the sum of no observation being 0
MeanZeroWhenEmpty(cells) ==
  LET obs == SelectSeq(cells, LAMBDA v : v # NaN)
  IN  IF obs = <<>> THEN Rat(0, 1)
      ELSE LET s == RatSum(obs) IN Rat(s.num, s.den * Len(obs))

\* a mean that divides by the number of rows, missing ones included
MeanCountingMissing(cells) ==
  LET obs == SelectSeq(cells, LAMBDA v : v # NaN)
  IN  IF obs = <<>> THEN NaN
      ELSE LET s == RatSum(obs) IN Rat(s.num, s.den * Len(cells))

\* a mean that forgets to divide by the number of observations
MeanUndivided(cells) ==
  LET obs == SelectSeq(cells, LAMBDA v : v # NaN)
  IN  IF obs = <<>> THEN NaN ELSE RatSum(obs)

\* Series.mean() of the cells of one group: NaN cells are skipped, and the
\* mean of no cell at all is NaN
Mean(cells) ==
  LET obs == SelectSeq(cells, LAMBDA v : ~IsNa(v))
  IN  IF obs = <<>> THEN NaN
      ELSE LET s == RatSum(obs) IN Rat(s.num, s.den * Len(obs))

\* the cells of column c in the rows of df whose date is d, in row order
GroupCells(df, d, c) ==
  LET rows == SelectSeq(df.data, LAMBDA r : ToDate(r[DATE_TIME]) = d)
  IN  [i \in 1..Len(rows) |-> rows[i][c]]

\* a grouping by the full timestamp, truncated to the date only afterwards
GroupByStampMean(df, cols) ==
  LET at == SortedSeq({Instant(df.data[i][DATE_TIME]) : i \in 1..NRows(df)})
  IN  [index   |-> [i \in 1..Len(at) |-> ToDate(StampAt(at[i]))],
       columns |-> cols,
       data    |-> [i \in 1..Len(at) |->
                      [c \in Range(cols) |->
                         LET rows == SelectSeq(df.data,
                                       LAMBDA r : r[DATE_TIME] = StampAt(at[i]))
                         IN  Mean([n \in 1..Len(rows) |-> rows[n][c]])]]]

\* df.groupby(df['DATE_TIME'].dt.date, as_index=True)[cols].mean(): one row
\* per distinct date, in ascending date order, indexed by the date
GroupByDateMean(df, cols) ==
  LET dates == SortedSeq({ToDate(df.data[i][DATE_TIME]) : i \in 1..NRows(df)})
  IN  [index   |-> dates,
       columns |-> cols,
       data    |-> [i \in 1..Len(dates) |->
                      [c \in Range(cols) |-> Mean(GroupCells(df, dates[i], c))]]]

\* daily_aggregate.index = daily_aggregate.index.astype('datetime64[ns]')
IndexAsDatetime(df) ==
  [df EXCEPT !.index = [i \in 1..Len(df.index) |-> DateToTimestamp(df.index[i])]]

\* the Daily Aggregator
DailyAggregator(df) == IndexAsDatetime(GroupByDateMean(df, VwcColumns(df)))

\* the rows of the right table whose key is k, in order
Matches(right, k) ==
  SelectSeq([j \in 1..NRows(right) |-> j], LAMBDA j : right.index[j] = k)

RECURSIVE JoinPairs(_, _, _)
\* the <<left row, right row>> pairs of a left join from left row i on: a
\* left row pairs with each right row of its key, or with 0 when none has it
JoinPairs(left, right, i) ==
  IF i > NRows(left) THEN <<>>
  ELSE LET m == Matches(right, left.index[i])
       IN  (IF m = <<>> THEN << <<i, 0>> >>
            ELSE [n \in 1..Len(m) |-> <<i, m[n]>>])
           \o JoinPairs(left, right, i + 1)

\* a join that keeps only the keys both tables have (how='inner')
JoinInner(left, right) ==
  LET both == SelectSeq([i \in 1..NRows(left) |-> i],
                        LAMBDA i : \E j \in 1..NRows(right) : right.index[j] = left.index[i])
      match(i) == CHOOSE j \in 1..NRows(right) : right.index[j] = left.index[i]
  IN  [index   |-> [p \in 1..Len(both) |-> left.index[both[p]]],
       columns |-> left.columns \o right.columns,
       data    |-> [p \in 1..Len(both) |->
                      [c \in Range(left.columns) \cup Range(right.columns) |->
                         IF c \in Range(left.columns) THEN left.data[both[p]][c]
                         ELSE right.data[match(both[p])][c]]]]

\* a join that keeps the keys of both tables (how='outer'), in key order
JoinOuter(left, right) ==
  LET at == SortedSeq({Instant(left.index[i]) : i \in 1..NRows(left)}
                      \cup {Instant(right.index[j]) : j \in 1..NRows(right)})
      cell(t, k, c) == IF \E j \in 1..NRows(t) : t.index[j] = k
                       THEN t.data[CHOOSE j \in 1..NRows(t) : t.index[j] = k][c]
                       ELSE NaN
  IN  [index   |-> [p \in 1..Len(at) |-> StampAt(at[p])],
       columns |-> left.columns \o right.columns,
       data    |-> [p \in 1..Len(at) |->
                      [c \in Range(left.columns) \cup Range(right.columns) |->
                         IF c \in Range(left.columns) THEN cell(left, StampAt(at[p]), c)
                         ELSE cell(right, StampAt(at[p]), c)]]]

\* left.join(right): a left join on the index (how='left'), the rows of left
\* in order, NaN in the right columns of a row with no match
Join(left, right) ==
  LET pairs == JoinPairs(left, right, 1)
  IN  [index   |-> [p \in 1..Len(pairs) |-> left.index[pairs[p][1]]],
       columns |-> left.columns \o right.columns,
       data    |-> [p \in 1..Len(pairs) |->
                      [c \in Range(left.columns) \cup Range(right.columns) |->
                         IF c \in Range(left.columns) THEN left.data[pairs[p][1]][c]
                         ELSE IF pairs[p][2] = 0 THEN NaN
                         ELSE right.data[pairs[p][2]][c]]]]

\* left.join(right) raises ValueError when a column name is in both
JoinOverlaps(left, right) == Range(left.columns) \cap Range(right.columns) # {}

\* df[cols]
SelectColumns(df, cols) ==
  [index   |-> df.index,
   columns |-> cols,
   data    |-> [i \in 1..NRows(df) |-> [c \in Range(cols) |-> df.data[i][c]]]]

\* df.reset_index(): the index named DATE_TIME becomes the first column
ResetIndex(df) ==
  [index   |-> [i \in 1..NRows(df) |-> i - 1],
   columns |-> <<DATE_TIME>> \o df.columns,
   data    |-> [i \in 1..NRows(df) |->
                  [c \in {DATE_TIME} \cup Range(df.columns) |->
                     IF c = DATE_TIME THEN df.index[i] ELSE df.data[i][c]]]]

\* a column that dropna(axis=1, how='all') keeps: some cell of it is not NaN
KeptByDropna(df, c) == \E i \in 1..NRows(df) : ~IsNa(df.data[i][c])

\* a dropna that drops the all-missing rows as well as the all-missing columns
DropAllNaRowsAndColumns(df) ==
  LET cols == SelectSeq(df.columns, LAMBDA c : \E i \in 1..NRows(df) : df.data[i][c] # NaN)
      keep == SelectSeq([i \in 1..NRows(df) |-> i],
                        LAMBDA i : \E c \in Range(cols) \ {DATE_TIME} : df.data[i][c] # NaN)
  IN  [index   |-> [k \in 1..Len(keep) |-> df.index[keep[k]]],
       columns |-> cols,
       data    |-> [k \in 1..Len(keep) |-> [c \in Range(cols) |-> df.data[keep[k]][c]]]]

\* a dropna whose result is thrown away (no inplace=True, no assignment)
DropNothing(df) == df

\* df.dropna(axis=1, how='all')
DropAllNaColumns(df) ==
  LET cols == SelectSeq(df.columns, LAMBDA c : KeptByDropna(df, c))
  IN  [index   |-> df.index,
       columns |-> cols,
       data    |-> [i \in 1..NRows(df) |-> [c \in Range(cols) |-> df.data[i][c]]]]

\* a melt that walks the table row by row (the order of DataFrame.stack)
MeltRowMajor(df, id) ==
  LET vars == SelectSeq(df.columns, LAMBDA c : c # id)
      m    == Len(vars)
  IN  [k \in 1..(m * NRows(df)) |->
         LET i == ((k - 1) \div m) + 1
             c == vars[((k - 1) % m) + 1]
         IN  [DATE_TIME |-> df.data[i][id], Sensor |-> c, VWC |-> df.data[i][c]]]

\* a melt that leaves out the records of the missing cells
MeltDropNa(df, id) ==
  LET vars == SelectSeq(df.columns, LAMBDA c : c # id)
      n    == NRows(df)
      all  == [k \in 1..(Len(vars) * n) |->
                 LET c == vars[((k - 1) \div n) + 1]
                     i == ((k - 1) % n) + 1
                 IN  [DATE_TIME |-> df.data[i][id], Sensor |-> c, VWC |-> df.data[i][c]]]
  IN  SelectSeq(all, LAMBDA r : r.VWC # NaN)

\* a melt that takes every value from the first value column
MeltFirstColumn(df, id) ==
  LET vars == SelectSeq(df.columns, LAMBDA c : c # id)
      n    == NRows(df)
  IN  [k \in 1..(Len(vars) * n) |->
         LET c == vars[((k - 1) \div n) + 1]
             i == ((k - 1) % n) + 1
         IN  [DATE_TIME |-> df.data[i][id], Sensor |-> c, VWC |-> df.data[i][vars[1]]]]

\* pd.melt(df, id_vars=id, var_name="Sensor", value_name="VWC"): for each
\* value column in column order, one record per row in row order
Melt(df, id) ==
  LET vars == SelectSeq(df.columns, LAMBDA c : c # id)
      n    == NRows(df)
  IN  [k \in 1..(Len(vars) * n) |->
         LET c == vars[((k - 1) \div n) + 1]
             i == ((k - 1) % n) + 1
         IN  [DATE_TIME |-> df.data[i][id], Sensor |-> c, VWC |-> df.data[i][c]]]

\* daily_dataset.dropna(subset=['COSMOS_VWC','PE']): the rows with no NaN in
\* the two columns
DropNaRows(df, subset) ==
  LET keep == SelectSeq([i \in 1..NRows(df) |-> i],
                        LAMBDA i : \A c \in subset : ~IsNa(df.data[i][c]))
  IN  [index   |-> [k \in 1..Len(keep) |-> df.index[keep[k]]],
       columns |-> df.columns,
       data    |-> [k \in 1..Len(keep) |-> df.data[keep[k]]]]

\* --------------------------------------------------------- the CSV files
DailyColumns == <<DATE_TIME, SITE_ID, COSMOS_VWC, PE>>

SubhourlyColumns == <<DATE_TIME, SITE_ID, TA, TDT1_TSOIL, TDT1_VWC>>

\* COSMOS-UK_<st>_HydroSoil_Daily_2013-2019.csv: one row per day of S, in
\* date order, stamped at midnight; f gives the day's <<COSMOS_VWC, PE>>
DailyFile(st, S, f) ==
  LET days == SortedSeq(S)
  IN  [columns |-> DailyColumns,
       rows    |-> [i \in 1..Len(days) |->
                      [c \in Range(DailyColumns) |->
                         CASE c = DATE_TIME  -> DateToTimestamp(days[i])
                           [] c = SITE_ID    -> [id |-> st]
                           [] c = COSMOS_VWC -> f[days[i]][1]
                           [] OTHER          -> f[days[i]][2]]]]

DailyFiles(st, days, cosmos, pes) ==
  UNION {{DailyFile(st, S, f) : f \in [S -> cosmos \X pes]} : S \in SUBSET days}

\* COSMOS-UK_<st>_HydroSoil_SH_2013-2019.csv: one row per timestamp of S, in
\* time order; f gives the TDT1_VWC reading, other the non-VWC readings
SubhourlyFile(st, S, f, other) ==
  LET at == SortedSeq({Instant(ts) : ts \in S})
  IN  [columns |-> SubhourlyColumns,
       rows    |-> [i \in 1..Len(at) |->
                      [c \in Range(SubhourlyColumns) |->
                         CASE c = DATE_TIME -> StampAt(at[i])
                           [] c = SITE_ID   -> [id |-> st]
                           [] c = TDT1_VWC  -> f[StampAt(at[i])]
                           [] OTHER         -> other]]]

\* the sub-hourly files of at least one and at most maxRows rows
SubhourlyFiles(st, stamps, maxRows, vals, other) ==
  UNION {{SubhourlyFile(st, S, f, other) : f \in [S -> vals]} :
           S \in {T \in SUBSET stamps : T # {} /\ Cardinality(T) <= maxRows}}

\* a CSV file that lacks the column c of the station's usual file
WithoutColumn(file, c) ==
  LET cols == SelectSeq(file.columns, LAMBDA x : x # c)
  IN  [columns |-> cols,
       rows    |-> [i \in 1..Len(file.rows) |-> [x \in Range(cols) |-> file.rows[i][x]]]]

\* ------------------------------------------------------------- the state
VARIABLES
  source,             \* the CSV files of each station: [daily, sh]
  selection,          \* target_station.value
  nsel,               \* changes of the selection so far
  pending,            \* callbacks the current selection has still to run
  pc,                 \* position of the running site_daily, or "idle"
  daily_dataset,      \* locals of site_daily
  subhourly_dataset,
  daily_aggregate,
  daily_joined,
  daily_joined_long,
  outcome,            \* how the last run of site_daily ended
  chart,              \* the chart site_daily last returned
  pe_chart,           \* the chart plot_pe_vwc last returned
  outputs             \* per station, the results of its finished runs

vars == <<source, selection, nsel, pending, pc, daily_dataset,
          subhourly_dataset, daily_aggregate, daily_joined,
          daily_joined_long, outcome, chart, pe_chart, outputs>>

locals == <<daily_dataset, subhourly_dataset, daily_aggregate, daily_joined,
            daily_joined_long>>

Callbacks == {"plot_pe_vwc", "site_daily"}

NoChart == [station |-> "", run |-> -1, data |-> <<>>]

InitRest ==
  /\ selection = station_list[1]
  /\ nsel = 0
  /\ pending = Callbacks
  /\ pc = "idle"
  /\ daily_dataset = NoFrame
  /\ subhourly_dataset = NoFrame
  /\ daily_aggregate = NoFrame
  /\ daily_joined = NoFrame
  /\ daily_joined_long = <<>>
  /\ outcome = "none"
  /\ chart = NoChart
  /\ pe_chart = NoChart
  /\ outputs = [s \in Stations |-> {}]

\* the days and timestamps of the files the selection machine switches between
SelDays == {1}

SelStamps == {[day |-> 1, tod |-> 1]}

SelFiles(st) ==
  [daily : DailyFiles(st, SelDays, {NA, Reading(0)}, {NA, Reading(0)}),
   sh    : SubhourlyFiles(st, SelStamps, 1, {NA, Reading(0)}, Reading(0))]

\* a session over small files of every station
Init ==
  /\ source \in {src \in [Stations -> UNION {SelFiles(s) : s \in Stations}] :
                   \A s \in Stations : src[s] \in SelFiles(s)}
  /\ InitRest

EmptyFiles(st) ==
  [daily |-> DailyFile(st, {}, <<>>), sh |-> SubhourlyFile(st, {}, <<>>, NA)]

\* the files of the session: t for the first station, none for the others
FirstStationHas(t) ==
  source = [s \in Stations |-> IF s = station_list[1] THEN t ELSE EmptyFiles(s)]

\* the first station has a daily file of some days of D with COSMOS_VWC cells
\* of dvals, and a sub-hourly file of one to maxRows timestamps of stamps with
\* TDT1_VWC cells of svals
FilesOver(D, dvals, stamps, maxRows, svals) ==
  \E S \in SUBSET D : \E f \in [S -> dvals \X {Reading(0)}] :
    \E T \in SUBSET stamps :
      /\ T # {}
      /\ Cardinality(T) <= maxRows
      /\ \E g \in [T -> svals] :
           FirstStationHas([daily |-> DailyFile(station_list[1], S, f),
                            sh    |-> SubhourlyFile(station_list[1], T, g, Reading(0))])

\* the plain daily files: days 1 and 2, the first day's COSMOS_VWC missing or not
PlainDaily(v) ==
  DailyFile(station_list[1], {1, 2},
            [d \in {1, 2} |-> <<IF d = 1 THEN v ELSE Reading(0), Reading(0)>>])

\* the timestamps of the plain sub-hourly files: two of day 1 and one of day 3
PlainStamps ==
  {[day |-> 1, tod |-> 0], [day |-> 1, tod |-> 1], [day |-> 3, tod |-> 1]}

\* the first run of site_daily, over the tables of the first station:
\* every pair of files over three days, two times of day and the readings 20
\* and 24; every sub-hourly file within the bounds with a plain daily file;
\* every daily file within the bounds with a plain sub-hourly file
InitTables ==
  /\ \/ FilesOver({1, 2, 3}, {NA, 20, 24}, [day : {1, 2, 3}, tod : {0, 1}], 2,
                  {NA, 20, 24})
     \/ \E v \in {NA, Reading(0)} : \E T \in SUBSET Timestamps :
          /\ T # {}
          /\ Cardinality(T) <= MaxSub
          /\ \E g \in [T -> Readings \cup {NA}] :
               FirstStationHas([daily |-> PlainDaily(v),
                                sh    |-> SubhourlyFile(station_list[1], T, g, Reading(0))])
     \/ FilesOver(Days, Readings \cup {NA}, PlainStamps, 2, {NA, Reading(0)})
  /\ InitRest

\* the daily files of a station in every column layout: the usual columns
\* (one row, COSMOS_VWC missing or not, or the header only), no DATE_TIME,
\* no COSMOS_VWC
DailyLayouts(st) ==
  LET usual == DailyFiles(st, SelDays, {NA, Reading(0)}, {Reading(0)})
  IN  usual \cup {WithoutColumn(f, c) : f \in usual, c \in {DATE_TIME, COSMOS_VWC}}

\* the sub-hourly files of a station in every column layout: the usual
\* columns, no DATE_TIME, no column that ends in _VWC
SubhourlyLayouts(st) ==
  LET usual == SubhourlyFiles(st, SelStamps, 1, {Reading(0)}, Reading(0))
  IN  usual \cup {WithoutColumn(f, c) : f \in usual, c \in {DATE_TIME, TDT1_VWC}}

LayoutFiles(st) == [daily : DailyLayouts(st), sh : SubhourlyLayouts(st)]

\* a session over files of every column layout
InitColumns ==
  /\ source \in {src \in [Stations -> UNION {LayoutFiles(s) : s \in Stations}] :
                   \A s \in Stations : src[s] \in LayoutFiles(s)}
  /\ InitRest

\* ----------------------------------------------------------- the widget
\* the kernel runs one callback at a time, to its end: a new value of the
\* widget is taken up when no callback of the last one is left
CanAccept(p, pos) == p = {} /\ pos = "idle"

\* target_station.value changes: both callbacks that depend on it are due
Select(s) ==
  /\ CanAccept(pending, pc)
  /\ nsel < MaxSelections
  /\ s # selection
  /\ selection' = s
  /\ nsel' = nsel + 1
  /\ pending' = Callbacks
  /\ UNCHANGED <<source, pc, locals, outcome, chart, pe_chart, outputs>>

\* a read that hands back the frame plot_pe_vwc last read for the station and
\* changed in place, when there is one (a cached, shared frame)
ReadDailyShared(src, other, st) ==
  IF other.station = st THEN other.data ELSE ReadCsv(src[st].daily)

\* the frame a read of the daily file returns: cat.data_siteid(...) makes a
\* new source on every call, so the frame is parsed from the file each time
\* and shares nothing with the frame another callback has changed in place
ReadDailyFrame(src, other, st) == ReadCsv(src[st].daily)

\* plot_pe_vwc raises when the file lacks a column it names: the read on
\* parse_dates: ['DATE_TIME'], dropna on subset=['COSMOS_VWC','PE']
PlotPeRaises(file) == ~({DATE_TIME, COSMOS_VWC, PE} \subseteq Range(file.columns))

\* plot_pe_vwc(station): read, dropna(subset, inplace=True), plot; when it
\* raises, nothing is returned and its chart stays
plot_pe_vwc ==
  /\ "plot_pe_vwc" \in pending
  /\ pc = "idle"
  /\ pe_chart' = IF PlotPeRaises(source[selection].daily) THEN pe_chart
                 ELSE [station |-> selection, run |-> nsel,
                       data |-> DropNaRows(ReadCsv(source[selection].daily),
                                           {COSMOS_VWC, PE})]
  /\ pending' = pending \ {"plot_pe_vwc"}
  /\ UNCHANGED <<source, selection, nsel, pc, locals, outcome, chart, outputs>>

\* ------------------------------------------------------------ site_daily
\* the locals of a call are gone when it returns or raises
Discard ==
  /\ daily_dataset' = NoFrame
  /\ subhourly_dataset' = NoFrame
  /\ daily_aggregate' = NoFrame
  /\ daily_joined' = NoFrame
  /\ daily_joined_long' = <<>>

\* an exception that is caught and answered with an empty chart
RaiseShowingEmptyChart ==
  /\ pc' = "idle"
  /\ outcome' = "chart"
  /\ chart' = [station |-> selection, run |-> nsel, data |-> <<>>]
  /\ pending' = pending \ {"site_daily"}
  /\ outputs' = [outputs EXCEPT ![selection] = @ \cup {[ok |-> TRUE, records |-> <<>>]}]
  /\ Discard
  /\ UNCHANGED <<source, selection, nsel, pe_chart>>

\* an exception leaves site_daily: nothing is returned, the chart stays
Raise ==
  /\ pc' = "idle"
  /\ outcome' = "error"
  /\ pending' = pending \ {"site_daily"}
  /\ outputs' = [outputs EXCEPT ![selection] = @ \cup {[ok |-> FALSE, records |-> <<>>]}]
  /\ Discard
  /\ UNCHANGED <<source, selection, nsel, chart, pe_chart>>

\* daily_dataset = cat.data_siteid(resolution='Daily', ...).read()
\* daily_dataset.index = daily_dataset.DATE_TIME.astype('datetime64[ns]')
ReadDaily ==
  /\ "site_daily" \in pending
  /\ pc = "idle"
  /\ LET df == ReadDailyFrame(source, pe_chart, selection)
     IN  IF HasColumn(df, DATE_TIME)
         THEN /\ daily_dataset' = SetDateTimeIndex(df)
              /\ pc' = "read_sh"
              /\ UNCHANGED <<source, selection, nsel, pending, subhourly_dataset,
                             daily_aggregate, daily_joined, daily_joined_long,
                             outcome, chart, pe_chart, outputs>>
         ELSE Raise

\* subhourly_dataset = cat.data_siteid(resolution='SH', ...).read()
ReadSubhourly ==
  /\ pc = "read_sh"
  /\ subhourly_dataset' = ReadCsv(source[selection].sh)
  /\ pc' = "aggregate"
  /\ UNCHANGED <<source, selection, nsel, pending, daily_dataset, daily_aggregate,
                 daily_joined, daily_joined_long, outcome, chart, pe_chart, outputs>>

\* daily_aggregate = subhourly_dataset.groupby(...)[..._VWC columns].mean()
\* daily_aggregate.index = daily_aggregate.index.astype('datetime64[ns]')
Aggregate ==
  /\ pc = "aggregate"
  /\ IF HasColumn(subhourly_dataset, DATE_TIME)
     THEN /\ daily_aggregate' = DailyAggregator(subhourly_dataset)
          /\ pc' = "align"
          /\ UNCHANGED <<source, selection, nsel, pending, daily_dataset,
                         subhourly_dataset, daily_joined, daily_joined_long,
                         outcome, chart, pe_chart, outputs>>
     ELSE Raise

\* subhourly_dataset.columns[... endswith('_VWC')].tolist() + ['COSMOS_VWC']
TargetColumns(sub) == VwcColumns(sub) \o <<COSMOS_VWC>>

\* the Series Aligner: join, column selection, reset_index, index, dropna
Aligned(daily, aggregate, sub) ==
  DropAllNaColumns(
    SetDateTimeIndex(
      ResetIndex(
        SelectColumns(Join(daily, aggregate), TargetColumns(sub)))))

\* daily_dataset.join raises on a shared column name, and the column
\* selection raises on a target column the joined table does not have
AlignRaises(daily, aggregate, sub) ==
  \/ JoinOverlaps(daily, aggregate)
  \/ \E c \in Range(TargetColumns(sub)) :
        c \notin Range(daily.columns) \cup Range(aggregate.columns)

Align ==
  /\ pc = "align"
  /\ IF AlignRaises(daily_dataset, daily_aggregate, subhourly_dataset)
     THEN Raise
     ELSE /\ daily_joined' = Aligned(daily_dataset, daily_aggregate, subhourly_dataset)
          /\ pc' = "reshape"
          /\ UNCHANGED <<source, selection, nsel, pending, daily_dataset,
                         subhourly_dataset, daily_aggregate, daily_joined_long,
                         outcome, chart, pe_chart, outputs>>

\* daily_joined_long = pd.melt(daily_joined, id_vars='DATE_TIME', ...):
\* melt raises KeyError when the frame has no column DATE_TIME
Reshape ==
  /\ pc = "reshape"
  /\ IF HasColumn(daily_joined, DATE_TIME)
     THEN /\ daily_joined_long' = Melt(daily_joined, DATE_TIME)
          /\ pc' = "plot"
          /\ UNCHANGED <<source, selection, nsel, pending, daily_dataset,
                         subhourly_dataset, daily_aggregate, daily_joined,
                         outcome, chart, pe_chart, outputs>>
     ELSE Raise

\* plot_daily = daily_joined_long.hvplot(...); return plot_daily.opts(...)
Plot ==
  /\ pc = "plot"
  /\ chart' = [station |-> selection, run |-> nsel, data |-> daily_joined_long]
  /\ outcome' = "chart"
  /\ pc' = "idle"
  /\ pending' = pending \ {"site_daily"}
  /\ outputs' = [outputs EXCEPT ![selection] =
                   @ \cup {[ok |-> TRUE, records |-> daily_joined_long]}]
  /\ Discard
  /\ UNCHANGED <<source, selection, nsel, pe_chart>>

site_daily == ReadDaily \/ ReadSubhourly \/ Aggregate \/ Align \/ Reshape \/ Plot

Next == (\E s \in Stations : Select(s)) \/ plot_pe_vwc \/ site_daily

Spec == Init /\ [][Next]_vars

NextTables == site_daily

SpecTables == InitTables /\ [][NextTables]_vars

SpecColumns == InitColumns /\ [][Next]_vars

\* ================================================================ claims
\* site_daily has computed daily_aggregate
Aggregated == pc \in {"align", "reshape", "plot"}

\* site_daily has computed daily_joined
AlignedDone == pc \in {"reshape", "plot"}

\* the rows of the sub-hourly table that fall on day d
RowsOn(d) ==
  {i \in 1..NRows(subhourly_dataset) : subhourly_dataset.data[i][DATE_TIME].day = d}

\* the rows on day d that carry an observation of channel c
ObservedOn(d, c) == {i \in RowsOn(d) : subhourly_dataset.data[i][c] # NaN}

RECURSIVE SumOfReadings(_, _)
\* the sum of the readings of channel c in the rows I of the sub-hourly table
SumOfReadings(I, c) ==
  IF I = {} THEN 0
  ELSE LET i == CHOOSE x \in I : TRUE
       IN  subhourly_dataset.data[i][c].num + SumOfReadings(I \ {i}, c)

\* the rows of the aggregate whose key is midnight of day d
AggregateRowsOf(d) ==
  {k \in 1..NRows(daily_aggregate) : daily_aggregate.index[k] = [day |-> d, tod |-> 0]}

\* C1: the daily aggregate has a row for a date only if some sub-hourly
\* timestamp falls on that date, exactly one row for each such date, its
\* columns are the _VWC channels, and each value is the arithmetic mean of the
\* channel's observations of that date (missing when the date has none).
C1_DailyMean ==
  Aggregated =>
    /\ Range(daily_aggregate.columns) = {TDT1_VWC}
    /\ \A k \in 1..NRows(daily_aggregate) :
         /\ daily_aggregate.index[k].tod = 0
         /\ RowsOn(daily_aggregate.index[k].day) # {}
    /\ \A d \in Days : RowsOn(d) # {} => Cardinality(AggregateRowsOf(d)) = 1
    /\ \A k \in 1..NRows(daily_aggregate) : \A c \in Range(daily_aggregate.columns) :
         LET obs == ObservedOn(daily_aggregate.index[k].day, c)
             v   == daily_aggregate.data[k][c]
         IN  IF obs = {} THEN v = NaN
             ELSE v.den > 0 /\ v.num * Cardinality(obs) = SumOfReadings(obs, c) * v.den

\* two readings 20 and 24 of one day have been averaged to 22
C1_Witness ==
  /\ pc = "align"
  /\ \E k \in 1..NRows(daily_aggregate) :
       /\ daily_aggregate.data[k][TDT1_VWC] = [num |-> 22, den |-> 1]
       /\ \E i, j \in RowsOn(daily_aggregate.index[k].day) :
            /\ subhourly_dataset.data[i][TDT1_VWC] = [num |-> 20, den |-> 1]
            /\ subhourly_dataset.data[j][TDT1_VWC] = [num |-> 24, den |-> 1]

\* the dates of the native daily table and of the aggregate
NativeDates == {daily_dataset.index[i] : i \in 1..NRows(daily_dataset)}

AggregateDates == {daily_aggregate.index[k] : k \in 1..NRows(daily_aggregate)}

JoinedDates == {daily_joined.index[i] : i \in 1..NRows(daily_joined)}

\* C2 as stated: every date of either input is a row of the aligned table.
C2_Original == AlignedDone => NativeDates \cup AggregateDates \subseteq JoinedDates

\* C2, amended: the rows of the aligned table are the rows of the native daily
\* table, in its order: every native date appears, a date that only the
\* aggregate has gets no row, the native channel is the native value and the
\* aggregated channel is the aggregate's value for the date, missing where the
\* aggregate has no row for it.
C2_LeftJoin ==
  AlignedDone =>
    /\ daily_joined.index = daily_dataset.index
    /\ \A i \in 1..NRows(daily_joined) : \A c \in Range(daily_joined.columns) :
         LET v == daily_joined.data[i][c]
             m == {k \in 1..NRows(daily_aggregate) :
                     daily_aggregate.index[k] = daily_dataset.index[i]}
         IN  CASE c = DATE_TIME  -> v = daily_dataset.index[i]
               [] c = COSMOS_VWC -> v = daily_dataset.data[i][COSMOS_VWC]
               [] OTHER -> IF m = {} THEN v = NaN
                           ELSE \E k \in m : v = daily_aggregate.data[k][c]

\* native dates [1, 2] and aggregate dates [1, 3] have been aligned: the rows
\* are days 1 and 2, and the aggregated channel is missing on day 2
C2_Witness ==
  /\ pc = "reshape"
  /\ daily_dataset.index = <<[day |-> 1, tod |-> 0], [day |-> 2, tod |-> 0]>>
  /\ daily_aggregate.index = <<[day |-> 1, tod |-> 0], [day |-> 3, tod |-> 0]>>
  /\ daily_joined.index = <<[day |-> 1, tod |-> 0], [day |-> 2, tod |-> 0]>>
  /\ daily_joined.columns = <<DATE_TIME, TDT1_VWC, COSMOS_VWC>>
  /\ daily_joined.data[1][TDT1_VWC] # NaN
  /\ daily_joined.data[2][TDT1_VWC] = NaN
  /\ daily_joined.data[2][COSMOS_VWC] # NaN

\* the sensor columns of the aligned table
SensorColumns == Range(daily_joined.columns) \ {DATE_TIME}

\* the long-form records of the cell of row i and sensor column c
RecordsOf(i, c) ==
  {k \in 1..Len(daily_joined_long) :
     /\ daily_joined_long[k].DATE_TIME = daily_joined.data[i][DATE_TIME]
     /\ daily_joined_long[k].Sensor = c}

\* C3 as stated: one record per non-missing cell, none for a missing cell.
C3_Original ==
  pc = "plot" =>
    \A i \in 1..NRows(daily_joined) : \A c \in SensorColumns :
      IF daily_joined.data[i][c] = NaN THEN RecordsOf(i, c) = {}
      ELSE Cardinality(RecordsOf(i, c)) = 1

\* C3, amended: the long form holds exactly one record for every (date,
\* sensor column) cell of the aligned table, missing or not, with the cell's
\* value (NaN for a missing cell), and no other record.
C3_MeltAllCells ==
  pc = "plot" =>
    /\ Len(daily_joined_long) = NRows(daily_joined) * Cardinality(SensorColumns)
    /\ \A k \in 1..Len(daily_joined_long) : daily_joined_long[k].Sensor \in SensorColumns
    /\ \A i \in 1..NRows(daily_joined) : \A c \in SensorColumns :
         /\ Cardinality(RecordsOf(i, c)) = 1
         /\ \A k \in RecordsOf(i, c) : daily_joined_long[k].VWC = daily_joined.data[i][c]

\* a table with a missing and a non-missing cell has been melted, and the
\* long form holds a record whose value is NaN
C3_Witness ==
  /\ pc = "plot"
  /\ HasColumn(daily_joined, TDT1_VWC)
  /\ \E i, j \in 1..NRows(daily_joined) :
       /\ daily_joined.data[i][TDT1_VWC] = NaN
       /\ daily_joined.data[j][TDT1_VWC] # NaN
  /\ \E k \in 1..Len(daily_joined_long) :
       daily_joined_long[k].Sensor = TDT1_VWC /\ daily_joined_long[k].VWC = NaN

\* C4: after the Series Aligner every sensor column ends in _VWC and comes
\* from the sub-hourly table, or is COSMOS_VWC; no other column of the daily
\* or the sub-hourly table is left.
C4_ColumnInvariant ==
  AlignedDone =>
    \A c \in SensorColumns :
      \/ c = COSMOS_VWC
      \/ /\ Len(c) >= 2
         /\ c[Len(c)] = "VWC"
         /\ c \in Range(subhourly_dataset.columns)

\* both inputs carry other measurement columns, and the aligned table holds
\* the aggregated channel and the native channel only
C4_Witness ==
  /\ pc = "reshape"
  /\ PE \in Range(daily_dataset.columns)
  /\ {TA, TDT1_TSOIL} \subseteq Range(subhourly_dataset.columns)
  /\ daily_joined.columns = <<DATE_TIME, TDT1_VWC, COSMOS_VWC>>

\* the timestamps of the two CSV files of the selected station
SourceStamps ==
  {source[selection].daily.rows[i][DATE_TIME] : i \in 1..Len(source[selection].daily.rows)}
  \cup {source[selection].sh.rows[i][DATE_TIME] : i \in 1..Len(source[selection].sh.rows)}

Widen(long) ==
  LET dates   == {long[k].DATE_TIME : k \in 1..Len(long)}
      sensors == {long[k].Sensor : k \in 1..Len(long)}
  IN  [dates   |-> dates,
       sensors |-> sensors,
       cell    |-> [x \in dates \X sensors |->
                      IF \E k \in 1..Len(long) :
                           long[k].DATE_TIME = x[1] /\ long[k].Sensor = x[2]
                      THEN long[CHOOSE k \in 1..Len(long) :
                             long[k].DATE_TIME = x[1] /\ long[k].Sensor = x[2]].VWC
                      ELSE NaN]]

\* C6: widening the long form back by (timestamp, sensor) gives the aligned
\* table again: no (date, sensor) pair has two records, and the dates, the
\* sensor columns and every cell are those of the aligned table.
C6_RoundTrip ==
  pc = "plot" =>
    LET W == Widen(daily_joined_long)
    IN  /\ \A k, l \in 1..Len(daily_joined_long) :
             (/\ daily_joined_long[k].DATE_TIME = daily_joined_long[l].DATE_TIME
              /\ daily_joined_long[k].Sensor = daily_joined_long[l].Sensor) => k = l
        /\ SensorColumns # {} =>
             W.dates = {daily_joined.data[i][DATE_TIME] : i \in 1..NRows(daily_joined)}
        /\ W.sensors = SensorColumns
        /\ \A i \in 1..NRows(daily_joined) : \A c \in SensorColumns :
             W.cell[<<daily_joined.data[i][DATE_TIME], c>>] = daily_joined.data[i][c]

\* a table of two dates and two sensors with unlike values and a missing
\* cell has been melted
C6_Witness ==
  /\ pc = "plot"
  /\ NRows(daily_joined) = 2
  /\ SensorColumns = {TDT1_VWC, COSMOS_VWC}
  /\ daily_joined.data[1][TDT1_VWC] # daily_joined.data[1][COSMOS_VWC]
  /\ daily_joined.data[2][TDT1_VWC] = NaN
  /\ daily_joined.data[1][COSMOS_VWC] # NaN

\* C7: the Daily Aggregator applied to its own output, the date key turned
\* back into the DATE_TIME column, returns that output.
C7_Idempotent ==
  Aggregated => DailyAggregator(ResetIndex(daily_aggregate)) = daily_aggregate

\* an aggregate of two dates, one with a value and one missing
C7_Witness ==
  /\ pc = "align"
  /\ NRows(daily_aggregate) = 2
  /\ \E k, l \in 1..2 :
       /\ daily_aggregate.data[k][TDT1_VWC] # NaN
       /\ daily_aggregate.data[l][TDT1_VWC] = NaN

\* C8: whatever the stations selected before, every finished run of
\* site_daily for a station gives the same result: the same long-form
\* records, or the same failure.
C8_Deterministic == \A s \in Stations : Cardinality(outputs[s]) <= 1

\* the first station is shown again after the other one (A, B, A), both
\* callbacks have run each time, and its chart holds records
C8_Witness ==
  /\ nsel = 2
  /\ selection = station_list[1]
  /\ pending = {}
  /\ pc = "idle"
  /\ outcome = "chart"
  /\ chart.run = 2
  /\ chart.data # <<>>
  /\ pe_chart.run = 2
  /\ outputs[station_list[2]] # {}
  /\ \E i \in 1..Len(source[selection].daily.rows) :
       source[selection].daily.rows[i][PE] = NA

\* C9 as stated: a run of site_daily belongs to the current selection and is
\* the only one due, and once the callbacks of a selection have run, the
\* chart on display is the fresh chart of that selection's run.
C9_Original ==
  /\ pc # "idle" => "site_daily" \in pending
  /\ (pc = "idle" /\ "site_daily" \notin pending) =>
       /\ outcome = "chart"
       /\ chart.station = selection
       /\ chart.run = nsel

\* C10 as stated: a run of site_daily over a daily file with no rows ends
\* with an empty chart, not with an error.
C10_Original ==
  (/\ pc = "idle"
   /\ "site_daily" \notin pending
   /\ source[selection].daily.rows = <<>>) =>
     /\ outcome = "chart"
     /\ chart.run = nsel
     /\ chart.data = <<>>

\* the callbacks of the current selection have run
Finished == pc = "idle" /\ "site_daily" \notin pending

\* the files of station st lack a column site_daily requires
InvalidInput(st) ==
  \/ DATE_TIME \notin Range(source[st].daily.columns)
  \/ DATE_TIME \notin Range(source[st].sh.columns)
  \/ COSMOS_VWC \notin Range(source[st].daily.columns)

\* C11: when DATE_TIME is absent from the daily or the sub-hourly table, or
\* COSMOS_VWC from the daily table, the run of site_daily ends in an error:
\* no chart and no long-form records come of it, and it is not run again
\* until the selection changes; the failure stays with that run: the run of
\* a later selection whose files have the columns (and a row) gives its chart.
C11_InvalidInput ==
  /\ [](/\ (Finished /\ InvalidInput(selection)) =>
             /\ outcome = "error"
             /\ chart.run # nsel
             /\ outputs[selection] = {[ok |-> FALSE, records |-> <<>>]}
        /\ (/\ Finished
            /\ ~InvalidInput(selection)
            /\ source[selection].daily.rows # <<>>) =>
             /\ outcome = "chart"
             /\ chart.station = selection
             /\ chart.run = nsel)
  /\ [][("site_daily" \notin pending /\ "site_daily" \in pending') =>
          selection' # selection]_vars

\* the run for the first station failed on a daily table without COSMOS_VWC,
\* and the run of the next selection has given its chart
C11_Witness ==
  /\ Finished
  /\ nsel = 1
  /\ selection = station_list[2]
  /\ COSMOS_VWC \notin Range(source[station_list[1]].daily.columns)
  /\ source[station_list[1]].daily.rows # <<>>
  /\ outputs[station_list[1]] = {[ok |-> FALSE, records |-> <<>>]}
  /\ outcome = "chart"
  /\ chart.run = 1
  /\ chart.data # <<>>

\* the cell of native row i and target column c in the joined table, before
\* the all-missing columns are dropped
JoinedCell(i, c) ==
  IF c = COSMOS_VWC THEN daily_dataset.data[i][COSMOS_VWC]
  ELSE LET m == {k \in 1..NRows(daily_aggregate) :
                   daily_aggregate.index[k] = daily_dataset.index[i]}
       IN  IF m = {} THEN NaN ELSE daily_aggregate.data[CHOOSE k \in m : TRUE][c]

\* the target column c is missing in every row of the joined table
MissingInEveryRow(c) == \A i \in 1..NRows(daily_dataset) : JoinedCell(i, c) = NaN

\* C12: a sensor column that is missing in every row of the aligned table
\* has no long-form record: no record carries its name.
C12_AllMissingColumnAbsent ==
  pc = "plot" =>
    \A c \in Range(TargetColumns(subhourly_dataset)) :
      MissingInEveryRow(c) =>
        \A k \in 1..Len(daily_joined_long) : daily_joined_long[k].Sensor # c

\* the aggregated channel is missing on both native dates, the native channel
\* is not, and the long form holds the records of the native channel only
C12_Witness ==
  /\ pc = "plot"
  /\ NRows(daily_dataset) = 2
  /\ NRows(daily_aggregate) >= 1
  /\ MissingInEveryRow(TDT1_VWC)
  /\ ~MissingInEveryRow(COSMOS_VWC)
  /\ Len(daily_joined_long) = 2
  /\ \A k \in 1..2 : daily_joined_long[k].Sensor = COSMOS_VWC

\* the rows of the aligned table whose sensor cells are all missing
AllMissingRows ==
  {i \in 1..NRows(daily_joined) : \A c \in SensorColumns : daily_joined.data[i][c] = NaN}

\* C13 as stated: no row whose sensor cells are all missing is left in the
\* table that is melted.
C13_Original == (AlignedDone /\ SensorColumns # {}) => AllMissingRows = {}

\* C13, amended: only columns are removed before the melt, a column when it
\* is missing in every row; no row is removed: every native date is a row of
\* the table that is melted, in order, also a date whose sensor cells are all
\* missing, and the long form holds that date's records with missing values.
C13_ColumnsOnlyDropped ==
  /\ AlignedDone =>
       /\ daily_joined.index = daily_dataset.index
       /\ {c \in Range(TargetColumns(subhourly_dataset)) : ~MissingInEveryRow(c)}
            = SensorColumns
       /\ NRows(daily_dataset) > 0 =>
            \A i \in 1..NRows(daily_joined) :
              daily_joined.data[i][DATE_TIME] = daily_dataset.index[i]
  /\ pc = "plot" =>
       \A i \in AllMissingRows : \A c \in SensorColumns :
         \E k \in 1..Len(daily_joined_long) :
           /\ daily_joined_long[k].DATE_TIME = daily_joined.index[i]
           /\ daily_joined_long[k].Sensor = c
           /\ daily_joined_long[k].VWC = NaN

\* both sensor columns are kept, the sensor cells of one of the two dates are
\* all missing, and that date has been melted
C13_Witness ==
  /\ pc = "plot"
  /\ NRows(daily_joined) = 2
  /\ SensorColumns = {TDT1_VWC, COSMOS_VWC}
  /\ Cardinality(AllMissingRows) = 1
  /\ Len(daily_joined_long) = 4

\* the rows of the native daily CSV file of the selected station
NativeRows == source[selection].daily.rows

\* the rows of the aligned table on the date of the file's row i
AlignedRowsOf(i) ==
  {j \in 1..NRows(daily_joined) : daily_joined.index[j] = NativeRows[i][DATE_TIME]}

\* C14: every row of the native daily file has exactly one row of its date
\* in the aligned table, and the COSMOS_VWC cell of that row is the file's
\* value for the date, as it was read (missing for -9999), neither averaged
\* nor altered; the column is left out only when every native value is missing.
C14_NativePassThrough ==
  AlignedDone =>
    \A i \in 1..Len(NativeRows) :
      /\ Cardinality(AlignedRowsOf(i)) = 1
      /\ \A j \in AlignedRowsOf(i) :
           IF HasColumn(daily_joined, COSMOS_VWC)
           THEN daily_joined.data[j][COSMOS_VWC] =
                  (IF NativeRows[i][COSMOS_VWC] = NA THEN NaN
                   ELSE [num |-> NativeRows[i][COSMOS_VWC], den |-> 1])
           ELSE \A n \in 1..Len(NativeRows) : NativeRows[n][COSMOS_VWC] = NA

\* native values 20 and 24 on two dates, only one of which the aggregate has
\* (with another value): both are in the aligned table as they were read
C14_Witness ==
  /\ pc = "reshape"
  /\ Len(NativeRows) = 2
  /\ NativeRows[1][COSMOS_VWC] = 20
  /\ NativeRows[2][COSMOS_VWC] = 24
  /\ NRows(daily_aggregate) = 1
  /\ daily_aggregate.index[1] = NativeRows[1][DATE_TIME]
  /\ daily_aggregate.data[1][TDT1_VWC] = [num |-> 22, den |-> 1]
  /\ daily_joined.data[1][COSMOS_VWC] = [num |-> 20, den |-> 1]
  /\ daily_joined.data[2][COSMOS_VWC] = [num |-> 24, den |-> 1]

\* the sensor columns of the aligned table, in column order
SensorColumnSeq == SelectSeq(daily_joined.columns, LAMBDA c : c # DATE_TIME)

\* C15 as stated: the records follow the rows first: for each date in table
\* order, its sensors in column order.
C15_Original ==
  pc = "plot" =>
    LET m == Len(SensorColumnSeq)
    IN  \A k \in 1..Len(daily_joined_long) :
          /\ daily_joined_long[k].DATE_TIME
               = daily_joined.data[((k - 1) \div m) + 1][DATE_TIME]
          /\ daily_joined_long[k].Sensor = SensorColumnSeq[((k - 1) % m) + 1]

\* C15, amended: the records follow the columns first: for each sensor
\* column in column order, its dates in table order.
C15_ColumnMajor ==
  pc = "plot" =>
    LET n == NRows(daily_joined)
    IN  /\ Len(daily_joined_long) = n * Len(SensorColumnSeq)
        /\ \A k \in 1..Len(daily_joined_long) :
             /\ daily_joined_long[k].Sensor = SensorColumnSeq[((k - 1) \div n) + 1]
             /\ daily_joined_long[k].DATE_TIME
                  = daily_joined.data[((k - 1) % n) + 1][DATE_TIME]

\* a table of two dates and two sensor columns has been melted: the first two
\* records are the two dates of the first sensor column
C15_Witness ==
  /\ pc = "plot"
  /\ NRows(daily_joined) = 2
  /\ SensorColumnSeq = <<TDT1_VWC, COSMOS_VWC>>
  /\ daily_joined_long[1].Sensor = TDT1_VWC
  /\ daily_joined_long[2].Sensor = TDT1_VWC
  /\ daily_joined_long[1].DATE_TIME # daily_joined_long[2].DATE_TIME
  /\ daily_joined_long[3].Sensor = COSMOS_VWC

\* the rows of the sub-hourly CSV file of the selected station
SubhourlyRows == source[selection].sh.rows

\* the rows of the sub-hourly file on day d, and those of them whose cell of
\* channel c is the missing-value code
FileRowsOn(d) == {i \in 1..Len(SubhourlyRows) : SubhourlyRows[i][DATE_TIME].day = d}

FileMissingOn(d, c) == {i \in FileRowsOn(d) : SubhourlyRows[i][c] = NA}

\* C16: a date on which every sub-hourly observation of a _VWC channel is
\* missing has a row in the daily aggregate, and the channel's value in it
\* is missing: not zero, nor any other number.
C16_MissingPropagates ==
  Aggregated =>
    \A d \in Days : \A c \in Range(daily_aggregate.columns) :
      (FileRowsOn(d) # {} /\ FileMissingOn(d, c) = FileRowsOn(d)) =>
        /\ AggregateRowsOf(d) # {}
        /\ \A k \in AggregateRowsOf(d) :
             /\ daily_aggregate.data[k][c] = NaN
             /\ daily_aggregate.data[k][c] # [num |-> 0, den |-> 1]

\* a date with two observations, both missing, has been aggregated
C16_Witness ==
  /\ pc = "align"
  /\ \E d \in Days :
       /\ Cardinality(FileRowsOn(d)) = 2
       /\ FileMissingOn(d, TDT1_VWC) = FileRowsOn(d)
       /\ \E k \in AggregateRowsOf(d) : daily_aggregate.data[k][TDT1_VWC] = NaN

RECURSIVE SumOfFileCells(_, _)
\* the sum of the cells of channel c in the rows I of the sub-hourly file
SumOfFileCells(I, c) ==
  IF I = {} THEN 0
  ELSE LET i == CHOOSE x \in I : TRUE
       IN  SubhourlyRows[i][c] + SumOfFileCells(I \ {i}, c)

\* C18: on a date where some but not all sub-hourly observations of a _VWC
\* channel are missing, the aggregated value is the sum of the non-missing
\* observations divided by their number: a missing observation adds nothing
\* to the sum, does not count in the divisor, and does not make the value
\* missing.
C18_MeanOfObserved ==
  Aggregated =>
    \A d \in Days : \A c \in Range(daily_aggregate.columns) :
      LET obs == FileRowsOn(d) \ FileMissingOn(d, c)
      IN  (obs # {} /\ FileMissingOn(d, c) # {}) =>
            /\ AggregateRowsOf(d) # {}
            /\ \A k \in AggregateRowsOf(d) :
                 LET v == daily_aggregate.data[k][c]
                 IN  /\ v # NaN
                     /\ v.den > 0
                     /\ v.num * Cardinality(obs) = SumOfFileCells(obs, c) * v.den

\* a date with a missing observation and the reading 24: the daily value is 24
C18_Witness ==
  /\ pc = "align"
  /\ \E d \in Days :
       /\ Cardinality(FileRowsOn(d)) = 2
       /\ Cardinality(FileMissingOn(d, TDT1_VWC)) = 1
       /\ \E i \in FileRowsOn(d) : SubhourlyRows[i][TDT1_VWC] = 24
       /\ \E k \in AggregateRowsOf(d) :
            daily_aggregate.data[k][TDT1_VWC] = [num |-> 24, den |-> 1]

\* the sub-hourly file of station st has no column that ends in _VWC
NoVwcChannel(st) ==
  \A i \in 1..Len(source[st].sh.columns) :
    LET c == source[st].sh.columns[i] IN c[Len(c)] # "VWC"

\* C17 as stated: a run of site_daily over a sub-hourly table with no _VWC
\* column (the files having the columns site_daily names) ends with a chart,
\* not an error, and COSMOS_VWC is the only sensor of its records: every
\* record carries it, and there are records when the native channel has a
\* value.
C17_Original ==
  (Finished /\ NoVwcChannel(selection) /\ ~InvalidInput(selection)) =>
    /\ outcome = "chart"
    /\ chart.station = selection
    /\ chart.run = nsel
    /\ \A k \in 1..Len(chart.data) : chart.data[k].Sensor = COSMOS_VWC
    /\ (\E i \in 1..Len(NativeRows) : NativeRows[i][COSMOS_VWC] # NA) =>
         chart.data # <<>>

====
